---- MODULE Spec2Model ----
(***************************************************************************)
(* Model of DataAnalyzer (src/src/data_analyzer.rs): the event loop `run`, *)
(* the three histories, `calculate_metrics` and `plot`.                    *)
(*                                                                         *)
(* f64 values are records [k, n]: k = "fin" with integer n, or "nan",      *)
(* "inf" (n = 1 for +inf, -1 for -inf), or "sub" for the positive          *)
(* subnormal n * 2^-1040 (1 <= n < 2^16), which is so far below every       *)
(* Fin(n) that a quotient Fin / Sub exceeds f64::MAX and a sum Fin + Sub    *)
(* rounds to the Fin.  Quotients of finite values of one scale are exact    *)
(* rationals <<numerator, denominator>> with a positive denominator.        *)
(***************************************************************************)
EXTENDS Integers, Sequences, FiniteSets, TLC

VARIABLES
    subscribe_receiver,   \* events in the unbounded channel, oldest first
    market_data_history,  \* Vec<(String, f64)>
    asset_history,        \* Vec<(String, f64)>
    cash_history,         \* Vec<(String, f64)>
    local_portfolio,      \* Portfolio (asset, cash)
    run_state,            \* position of `run`: "Running" or "Stopped"
    last_arm,             \* the arm of the `match event` that `run` took last
    last_lengths,         \* the (usize, usize) memo handed to `plot`
    plot_call,            \* what the last invocation of `plot` did
    metrics               \* result of the last `calculate_metrics`

vars == <<subscribe_receiver, market_data_history, asset_history, cash_history,
          local_portfolio, run_state, last_arm, last_lengths, plot_call,
          metrics>>

histories == <<market_data_history, asset_history, cash_history>>

----------------------------------------------------------------------------
(* Bounds *)

MaxChannel == 1      \* events in flight
MaxMarketHistory == 2 \* length of the market series
MaxAssetHistory == 2  \* length of the asset series and of the cash series
MaxSeriesLen == 4    \* asset series length when metrics are checked alone
MaxSeriesVal == 3    \* finite asset values -1..MaxSeriesVal, metrics alone
MaxMarketLen == 2    \* market series length when metrics are checked alone

----------------------------------------------------------------------------
(* f64 *)

Fin(n) == [k |-> "fin", n |-> n]
NaN == [k |-> "nan", n |-> 0]
PosInf == [k |-> "inf", n |-> 1]
NegInf == [k |-> "inf", n |-> -1]
Sub(n) == [k |-> "sub", n |-> n]

is_nan(v) == v.k = "nan"
is_infinite(v) == v.k = "inf"
IsFinite(v) == v.k \in {"fin", "sub"}

\* a > b for finite a and b
FiniteGt(a, b) ==
    IF a.k = b.k THEN a.n > b.n
    ELSE IF a.k = "sub" THEN b.n <= 0
    ELSE a.n >= 1

\* a > b on f64: false whenever one side is NaN
FGt(a, b) ==
    /\ ~is_nan(a)
    /\ ~is_nan(b)
    /\ \/ IsFinite(a) /\ IsFinite(b) /\ FiniteGt(a, b)
       \/ a = PosInf /\ b # PosInf
       \/ b = NegInf /\ a # NegInf

FLt(a, b) == FGt(b, a)
FGe(a, b) == ~is_nan(a) /\ ~is_nan(b) /\ ~FGt(b, a)
FLe(a, b) == FGe(b, a)

\* exact rationals <<num, den>>, den > 0
RatLt(a, b) == a[1] * b[2] < b[1] * a[2]
RatEq(a, b) == a[1] * b[2] = b[1] * a[2]
RatMin(a, b) == IF RatLt(b, a) THEN b ELSE a

RECURSIVE GCD(_, _)
GCD(a, b) == IF b = 0 THEN a ELSE GCD(b, a % b)
Abs(a) == IF a < 0 THEN -a ELSE a

\* the rational in lowest terms
RatNorm(q) == LET g == GCD(Abs(q[1]), q[2]) IN <<q[1] \div g, q[2] \div g>>
RatAdd(a, b) == RatNorm(<<a[1] * b[2] + b[1] * a[2], a[2] * b[2]>>)
RatMul(a, b) == RatNorm(<<a[1] * b[1], a[2] * b[2]>>)

----------------------------------------------------------------------------
(* Events *)

\* two timestamp labels; a zero and a positive close, asset and cash value
Timestamps == {1, 2}
Closes == {Fin(0), Fin(1)}
Assets == {Fin(0), Fin(1)}
Cashes == {Fin(0), Fin(1)}

MarketData(timestamp, close) ==
    [kind |-> "MarketData", timestamp |-> timestamp, close |-> close]
PortfolioInfo(asset, cash) ==
    [kind |-> "PortfolioInfo", portfolio |-> [asset |-> asset, cash |-> cash]]
OrderPlace == [kind |-> "OrderPlace"]
ShutDown == [kind |-> "ShutDown"]

\* the events sent through the channel (portfolios there hold no cash)
Event ==
    {MarketData(t, c) : t \in Timestamps, c \in Closes}
    \cup {PortfolioInfo(a, Fin(0)) : a \in Assets}
    \cup {OrderPlace, ShutDown}

----------------------------------------------------------------------------
(* calculate_metrics *)

Max(a, b) == IF a > b THEN a ELSE b

\* Result<Metrics, Box<dyn Error>>; only the fields settled so far
\* a computed f64 of finite inputs: k = "fin" with the exact rational q, or
\* "inf" (+inf by overflow), or "nan"
Quot(q) == [k |-> "fin", q |-> q]
QuotInf == [k |-> "inf", q |-> <<1, 1>>]
QuotNaN == [k |-> "nan", q |-> <<0, 1>>]

\* a sortino_ratio: k = "fin" for annualized_excess_return /
\* (sqrt(downside_sq) * sqrt(252)), or "inf" for +inf
Sortino(k, excess, downside_sq) ==
    [k |-> k, excess |-> excess, downside_sq |-> downside_sq]
SortinoInfinity == Sortino("inf", <<1, 1>>, <<0, 1>>)

\* computed_drawdown tells whether the drawdown loops were reached
Ok(max_drawdown, longest_drawdown, sortino_ratio) ==
    [ok |-> TRUE, err |-> "none", computed_drawdown |-> TRUE,
     max_drawdown |-> max_drawdown, longest_drawdown |-> longest_drawdown,
     sortino_ratio |-> sortino_ratio]
Err(err) ==
    [ok |-> FALSE, err |-> err, computed_drawdown |-> FALSE,
     max_drawdown |-> <<0, 1>>, longest_drawdown |-> 0,
     sortino_ratio |-> SortinoInfinity]
NotComputed == Err("not_called")

\* mutant: the check tests value < 0.0, so a zero value passes
InvalidValue_ZeroAllowed(value) ==
    is_nan(value) \/ is_infinite(value) \/ FLt(value, Fin(0))

\* .any(|&(_, value)| value.is_nan() || value.is_infinite() || value <= 0.0)
InvalidValue(value) ==
    is_nan(value) \/ is_infinite(value) \/ FLe(value, Fin(0))

AnyInvalid(series) == \E i \in 1..Len(series) : InvalidValue(series[i][2])

\* .first().map(|&(_, value)| value).unwrap_or(0.0)
FirstOrZero(series) == IF Len(series) = 0 THEN Fin(0) ELSE series[1][2]

\* (value / peak) - 1.0 for finite value and peak > 0, value <= peak; a
\* subnormal value under a peak Fin(n) gives exactly -1.0
Drawdown(value, peak) ==
    IF value.k = peak.k THEN <<value.n - peak.n, peak.n>> ELSE <<-1, 1>>

\* mutant: the peak is never raised above the first value
RECURSIVE MaxDrawdownLoop_StalePeak(_, _, _, _)
MaxDrawdownLoop_StalePeak(series, i, peak, max_drawdown) ==
    IF i > Len(series) THEN max_drawdown
    ELSE LET value == series[i][2]
             md2 == IF FGt(peak, Fin(0))
                    THEN RatMin(max_drawdown, Drawdown(value, peak))
                    ELSE max_drawdown
         IN  MaxDrawdownLoop_StalePeak(series, i + 1, peak, md2)

\* the `for &(_, value) in asset_history.iter()` loop of the max drawdown
RECURSIVE MaxDrawdownLoop(_, _, _, _)
MaxDrawdownLoop(series, i, peak, max_drawdown) ==
    IF i > Len(series) THEN max_drawdown
    ELSE LET value == series[i][2]
             peak2 == IF FGt(value, peak) THEN value ELSE peak
             md2 == IF FGt(peak2, Fin(0))
                    THEN RatMin(max_drawdown, Drawdown(value, peak2))
                    ELSE max_drawdown
         IN  MaxDrawdownLoop(series, i + 1, peak2, md2)

MaxDrawdown(series) == MaxDrawdownLoop(series, 1, FirstOrZero(series), <<0, 1>>)

\* mutant: an episode is closed only by a recovery, not by the series end
RECURSIVE LongestDrawdownLoop_NoSeriesEnd(_, _, _, _, _)
LongestDrawdownLoop_NoSeriesEnd(series, i, peak, drawdown_start, longest_drawdown) ==
    IF i > Len(series) THEN longest_drawdown
    ELSE LET value == series[i][2]
             ended == drawdown_start # <<>> /\ FGe(value, peak)
             longest1 == IF ended
                         THEN Max(longest_drawdown, i - drawdown_start[1])
                         ELSE longest_drawdown
             start1 == IF ended THEN <<>> ELSE drawdown_start
             peak2 == IF FGt(value, peak) THEN value ELSE peak
             start2 == IF FGt(value, peak) THEN <<>>
                       ELSE IF FLt(value, peak) /\ start1 = <<>> THEN <<i>>
                       ELSE start1
         IN  LongestDrawdownLoop_NoSeriesEnd(series, i + 1, peak2, start2,
                                             longest1)

\* the enumerate() loop of the longest drawdown period; drawdown_start is
\* <<>> for None and <<i>> for Some(i)
RECURSIVE LongestDrawdownLoop(_, _, _, _, _)
LongestDrawdownLoop(series, i, peak, drawdown_start, longest_drawdown) ==
    IF i > Len(series) THEN longest_drawdown
    ELSE LET value == series[i][2]
             ended == /\ drawdown_start # <<>>
                      /\ (FGe(value, peak) \/ i = Len(series))
             longest1 == IF ended
                         THEN Max(longest_drawdown, i - drawdown_start[1])
                         ELSE longest_drawdown
             start1 == IF ended THEN <<>> ELSE drawdown_start
             peak2 == IF FGt(value, peak) THEN value ELSE peak
             start2 == IF FGt(value, peak) THEN <<>>
                       ELSE IF FLt(value, peak) /\ start1 = <<>> THEN <<i>>
                       ELSE start1
         IN  LongestDrawdownLoop(series, i + 1, peak2, start2, longest1)

LongestDrawdown(series) ==
    LongestDrawdownLoop(series, 1, FirstOrZero(series), <<>>, 0)

\* (window[1].1 - window[0].1) / window[0].1 for positive finite values:
\* over a subnormal divisor the quotient of a Fin(n) overflows to +inf, and
\* a subnormal minus a Fin(n) rounds to -Fin(n)
PeriodReturn(w0, w1) ==
    IF w0.k = w1.k THEN Quot(RatNorm(<<w1.n - w0.n, w0.n>>))
    ELSE IF w0.k = "sub" THEN QuotInf
    ELSE Quot(<<-1, 1>>)

\* asset_history.windows(2).map(..).collect()
Returns(series) ==
    [i \in 1..(Len(series) - 1) |->
        PeriodReturn(series[i][2], series[i + 1][2])]

RECURSIVE RatSum(_)
RatSum(qs) == IF Len(qs) = 0 THEN <<0, 1>> ELSE RatAdd(Head(qs), RatSum(Tail(qs)))

\* returns.iter().sum::<f64>() / n, n = returns.len() as f64
MeanReturn(returns) ==
    IF Len(returns) = 0 THEN QuotNaN
    ELSE IF \E i \in 1..Len(returns) : returns[i].k = "inf" THEN QuotInf
    ELSE Quot(RatMul(RatSum([i \in 1..Len(returns) |-> returns[i].q]),
                     <<1, Len(returns)>>))

\* mean_return * 252.0 - 0.05
AnnualizedExcessReturn(mean_return) ==
    IF mean_return.k = "fin"
    THEN Quot(RatAdd(RatMul(mean_return.q, <<252, 1>>), <<-1, 20>>))
    ELSE mean_return

\* .filter(|&r| r < 0.0)
IsDownside(r) == r.k = "fin" /\ r.q[1] < 0

\* the square of downside_deviation
DownsideMeanSquare(downside_returns) ==
    IF Len(downside_returns) = 0 THEN <<0, 1>>
    ELSE RatMul(RatSum([i \in 1..Len(downside_returns) |->
                           RatMul(downside_returns[i].q, downside_returns[i].q)]),
                <<1, Len(downside_returns)>>)

\* the sortino_ratio of the asset series
SortinoRatio(series) ==
    LET returns == Returns(series)
        excess == AnnualizedExcessReturn(MeanReturn(returns))
        downside_sq == DownsideMeanSquare(SelectSeq(returns, IsDownside))
    IN  IF RatLt(<<0, 1>>, downside_sq)
        THEN Sortino(excess.k, excess.q, downside_sq)
        ELSE SortinoInfinity

\* fn calculate_metrics(&self): reads the histories of self
calculate_metrics ==
    IF Len(market_data_history) = 0 \/ Len(asset_history) = 0
    THEN Err("InsufficientData")
    ELSE IF AnyInvalid(asset_history)
    THEN Err("InvalidSeriesValue")
    ELSE Ok(MaxDrawdown(asset_history), LongestDrawdown(asset_history),
            SortinoRatio(asset_history))

----------------------------------------------------------------------------
(* plot *)

NoPlot ==
    [path |-> "none", result |-> "none", computed_metrics |-> FALSE,
     called_surface |-> FALSE, divided |-> FALSE,
     first_market_value |-> Fin(1), first_asset_value |-> Fin(1),
     standardized_difference |-> <<>>, cash_defaulted |-> FALSE,
     lengths |-> <<0, 0>>, memo_before |-> <<0, 0>>, memo_after |-> <<0, 0>>]

\* market_data.get(0).map_or(1.0, |(_, value)| *value)
FirstOrOne(series) == IF Len(series) = 0 THEN Fin(1) ELSE series[1][2]

\* cash_history.iter().find(|(cash_timestamp, _)| cash_timestamp == timestamp)
\*     .map(|(_, value)| *value).unwrap_or(0.0): the first entry that matches
CashLookup(cash_snapshot, timestamp) ==
    LET matches == {j \in 1..Len(cash_snapshot) :
                       cash_snapshot[j][1] = timestamp}
    IN  IF matches = {} THEN [found |-> FALSE, value |-> Fin(0)]
        ELSE [found |-> TRUE,
              value |-> cash_snapshot[CHOOSE j \in matches :
                                         \A h \in matches : j <= h][2]]

\* (asset_value - cash_value) / first_asset_value per asset point, for
\* asset and cash values Fin(n)
StandardizedDifference(asset_snapshot, cash_snapshot) ==
    [i \in 1..Len(asset_snapshot) |->
        <<asset_snapshot[i][2].n
              - CashLookup(cash_snapshot, asset_snapshot[i][1]).value.n,
          FirstOrOne(asset_snapshot).n>>]

\* some asset point found no cash entry and took the default 0.0
CashDefaulted(asset_snapshot, cash_snapshot) ==
    \E i \in 1..Len(asset_snapshot) :
        ~CashLookup(cash_snapshot, asset_snapshot[i][1]).found

\* mutant: last_lengths is compared but never updated
plot_MemoNotUpdated(market_data, asset_snapshot, cash_snapshot, memo, surface_ok) ==
    LET lengths == <<Len(market_data), Len(asset_snapshot)>>
        base == [NoPlot EXCEPT !.lengths = lengths, !.memo_before = memo,
                               !.memo_after = memo]
    IN  IF lengths = memo
        THEN [base EXCEPT !.path = "no_update", !.result = "Ok"]
        ELSE IF Len(market_data) = 0 /\ Len(asset_snapshot) = 0
        THEN [base EXCEPT !.path = "no_data", !.result = "Ok"]
        ELSE IF ~calculate_metrics.ok
        THEN [base EXCEPT !.path = "metrics_error", !.result = "Err",
                          !.computed_metrics = TRUE]
        ELSE [base EXCEPT !.path = IF surface_ok THEN "rendered"
                                   ELSE "render_error",
                          !.result = IF surface_ok THEN "Ok" ELSE "Err",
                          !.computed_metrics = TRUE,
                          !.called_surface = TRUE,
                          !.divided = TRUE,
                          !.first_market_value = FirstOrOne(market_data),
                          !.first_asset_value = FirstOrOne(asset_snapshot),
                          !.standardized_difference =
                              StandardizedDifference(asset_snapshot,
                                                     cash_snapshot),
                          !.cash_defaulted =
                              CashDefaulted(asset_snapshot, cash_snapshot)]

\* fn plot(&self, market_data, asset_history, cash_history, last_lengths, _):
\* surface_ok is whether every call on the drawing backend succeeds
plot(market_data, asset_snapshot, cash_snapshot, memo, surface_ok) ==
    LET lengths == <<Len(market_data), Len(asset_snapshot)>>
        base == [NoPlot EXCEPT !.lengths = lengths, !.memo_before = memo]
    IN  IF lengths = memo
        THEN [base EXCEPT !.path = "no_update", !.result = "Ok",
                          !.memo_after = memo]
        ELSE IF Len(market_data) = 0 /\ Len(asset_snapshot) = 0
        THEN [base EXCEPT !.path = "no_data", !.result = "Ok",
                          !.memo_after = lengths]
        ELSE IF ~calculate_metrics.ok
        THEN [base EXCEPT !.path = "metrics_error", !.result = "Err",
                          !.computed_metrics = TRUE, !.memo_after = lengths]
        ELSE [base EXCEPT !.path = IF surface_ok THEN "rendered"
                                   ELSE "render_error",
                          !.result = IF surface_ok THEN "Ok" ELSE "Err",
                          !.computed_metrics = TRUE,
                          !.called_surface = TRUE,
                          !.divided = TRUE,
                          !.first_market_value = FirstOrOne(market_data),
                          !.first_asset_value = FirstOrOne(asset_snapshot),
                          !.standardized_difference =
                              StandardizedDifference(asset_snapshot,
                                                     cash_snapshot),
                          !.cash_defaulted =
                              CashDefaulted(asset_snapshot, cash_snapshot),
                          !.memo_after = lengths]

----------------------------------------------------------------------------
(* The event loop *)

Init ==
    /\ subscribe_receiver = <<>>
    /\ market_data_history = <<>>
    /\ asset_history = <<>>
    /\ cash_history = <<>>
    /\ local_portfolio = [asset |-> Fin(0), cash |-> Fin(0)]
    /\ run_state = "Running"
    /\ last_arm = "none"
    /\ last_lengths = <<0, 0>>
    /\ plot_call = NoPlot
    /\ metrics = NotComputed

\* a publisher puts an event into the channel (the analyzer keeps a Sender,
\* so the channel never disconnects, also after `run` returned)
Send ==
    /\ Len(subscribe_receiver) < MaxChannel
    /\ \E event \in Event :
           subscribe_receiver' = Append(subscribe_receiver, event)
    /\ UNCHANGED <<market_data_history, asset_history, cash_history,
                   local_portfolio, run_state, last_arm, last_lengths,
                   plot_call, metrics>>

\* mutant: an observation with the timestamp of the last one replaces it
process_marketevent_Overwrites(market_data_event) ==
    LET n == Len(market_data_history)
        point == <<market_data_event.timestamp, market_data_event.close>>
    IN  /\ market_data_history' =
               IF n > 0 /\ market_data_history[n][1] = point[1]
               THEN [market_data_history EXCEPT ![n] = point]
               ELSE Append(market_data_history, point)
        /\ UNCHANGED <<asset_history, cash_history, local_portfolio>>

process_marketevent(market_data_event) ==
    /\ market_data_history' =
           Append(market_data_history,
                  <<market_data_event.timestamp, market_data_event.close>>)
    /\ UNCHANGED <<asset_history, cash_history, local_portfolio>>

\* mutant: without a market observation the entries are appended unaligned
process_portfolioinfo_AppendsUnaligned(portfolio_info_event) ==
    LET latest_timestamp ==
            IF Len(market_data_history) > 0
            THEN market_data_history[Len(market_data_history)][1]
            ELSE 1
    IN  /\ local_portfolio' = portfolio_info_event.portfolio
        /\ asset_history' =
               Append(asset_history,
                      <<latest_timestamp, portfolio_info_event.portfolio.asset>>)
        /\ cash_history' =
               Append(cash_history,
                      <<latest_timestamp, portfolio_info_event.portfolio.cash>>)
        /\ UNCHANGED market_data_history

\* mutant: a cash value equal to the last recorded one is not pushed again
process_portfolioinfo_CashDeduped(portfolio_info_event) ==
    /\ local_portfolio' = portfolio_info_event.portfolio
    /\ IF Len(market_data_history) > 0
       THEN LET latest_timestamp ==
                    market_data_history[Len(market_data_history)][1]
                cash == portfolio_info_event.portfolio.cash
            IN  /\ asset_history' =
                       Append(asset_history,
                              <<latest_timestamp,
                                portfolio_info_event.portfolio.asset>>)
                /\ cash_history' =
                       IF /\ Len(cash_history) > 0
                          /\ cash_history[Len(cash_history)][2] = cash
                       THEN cash_history
                       ELSE Append(cash_history, <<latest_timestamp, cash>>)
       ELSE UNCHANGED <<asset_history, cash_history>>
    /\ UNCHANGED market_data_history

\* mutant: the timestamp is taken from the first market observation
process_portfolioinfo_FirstTimestamp(portfolio_info_event) ==
    /\ local_portfolio' = portfolio_info_event.portfolio
    /\ IF Len(market_data_history) > 0
       THEN LET first_timestamp == market_data_history[1][1]
            IN  /\ asset_history' =
                       Append(asset_history,
                              <<first_timestamp,
                                portfolio_info_event.portfolio.asset>>)
                /\ cash_history' =
                       Append(cash_history,
                              <<first_timestamp,
                                portfolio_info_event.portfolio.cash>>)
       ELSE UNCHANGED <<asset_history, cash_history>>
    /\ UNCHANGED market_data_history

process_portfolioinfo(portfolio_info_event) ==
    /\ local_portfolio' = portfolio_info_event.portfolio
    /\ IF Len(market_data_history) > 0
       THEN LET latest_timestamp ==
                    market_data_history[Len(market_data_history)][1]
            IN  /\ asset_history' =
                       Append(asset_history,
                              <<latest_timestamp,
                                portfolio_info_event.portfolio.asset>>)
                /\ cash_history' =
                       Append(cash_history,
                              <<latest_timestamp,
                                portfolio_info_event.portfolio.cash>>)
       ELSE UNCHANGED <<asset_history, cash_history>>
    /\ UNCHANGED market_data_history

\* fn shut_down: snapshot, then plot with a fresh (0, 0) memo
shut_down(surface_ok) ==
    LET call == plot(market_data_history, asset_history, cash_history,
                     <<0, 0>>, surface_ok)
    IN  /\ plot_call' = call
        /\ last_lengths' = call.memo_after
        /\ metrics' = IF call.computed_metrics THEN calculate_metrics
                      ELSE metrics
        /\ UNCHANGED <<market_data_history, asset_history, cash_history,
                       local_portfolio>>

\* one iteration of the loop of `run` on a market event
RecvMarketData ==
    /\ run_state = "Running"
    /\ subscribe_receiver # <<>>
    /\ Head(subscribe_receiver).kind = "MarketData"
    /\ Len(market_data_history) < MaxMarketHistory
    /\ subscribe_receiver' = Tail(subscribe_receiver)
    /\ process_marketevent(Head(subscribe_receiver))
    /\ last_arm' = "MarketData"
    /\ UNCHANGED <<run_state, last_lengths, plot_call, metrics>>

\* one iteration of the loop of `run` on a portfolio event
RecvPortfolioInfo ==
    /\ run_state = "Running"
    /\ subscribe_receiver # <<>>
    /\ Head(subscribe_receiver).kind = "PortfolioInfo"
    /\ Len(asset_history) < MaxAssetHistory
    /\ subscribe_receiver' = Tail(subscribe_receiver)
    /\ process_portfolioinfo(Head(subscribe_receiver))
    /\ last_arm' = "PortfolioInfo"
    /\ UNCHANGED <<run_state, last_lengths, plot_call, metrics>>

\* mutant: the loop breaks only when the final plot succeeded
RecvShutDown_BreakOnSuccess ==
    /\ run_state = "Running"
    /\ subscribe_receiver # <<>>
    /\ Head(subscribe_receiver).kind = "ShutDown"
    /\ subscribe_receiver' = Tail(subscribe_receiver)
    /\ \E surface_ok \in BOOLEAN : shut_down(surface_ok)
    /\ last_arm' = "ShutDown"
    /\ run_state' = IF plot_call'.result = "Ok" THEN "Stopped" ELSE "Running"

\* one iteration of the loop of `run` on a shutdown event: shut_down; break
RecvShutDown ==
    /\ run_state = "Running"
    /\ subscribe_receiver # <<>>
    /\ Head(subscribe_receiver).kind = "ShutDown"
    /\ subscribe_receiver' = Tail(subscribe_receiver)
    /\ \E surface_ok \in BOOLEAN : shut_down(surface_ok)
    /\ last_arm' = "ShutDown"
    /\ run_state' = "Stopped"

\* mutant: the `_` arm leaves the loop
RecvUnsupported_Breaks ==
    /\ run_state = "Running"
    /\ subscribe_receiver # <<>>
    /\ Head(subscribe_receiver).kind
           \notin {"MarketData", "PortfolioInfo", "ShutDown"}
    /\ subscribe_receiver' = Tail(subscribe_receiver)
    /\ last_arm' = "Unsupported"
    /\ run_state' = "Stopped"
    /\ UNCHANGED <<market_data_history, asset_history, cash_history,
                   local_portfolio, last_lengths, plot_call, metrics>>

\* one iteration of the loop of `run` on any other event (the `_` arm)
RecvUnsupported ==
    /\ run_state = "Running"
    /\ subscribe_receiver # <<>>
    /\ Head(subscribe_receiver).kind
           \notin {"MarketData", "PortfolioInfo", "ShutDown"}
    /\ subscribe_receiver' = Tail(subscribe_receiver)
    /\ last_arm' = "Unsupported"
    /\ UNCHANGED <<market_data_history, asset_history, cash_history,
                   local_portfolio, run_state, last_lengths, plot_call, metrics>>

Next ==
    \/ Send
    \/ RecvMarketData
    \/ RecvPortfolioInfo
    \/ RecvShutDown
    \/ RecvUnsupported

Spec == Init /\ [][Next]_vars

----------------------------------------------------------------------------
(* plot called repeatedly with a memo that lives across the calls *)

InitPlot ==
    /\ subscribe_receiver = <<>>
    /\ market_data_history = <<>>
    /\ asset_history = <<>>
    /\ cash_history = <<>>
    /\ local_portfolio = [asset |-> Fin(0), cash |-> Fin(0)]
    /\ run_state = "Running"
    /\ last_arm = "none"
    /\ last_lengths = <<0, 0>>
    /\ plot_call = NoPlot
    /\ metrics = NotComputed

\* process_marketevent called with an event
CallMarketEvent ==
    /\ Len(market_data_history) < MaxMarketHistory
    /\ \E t \in Timestamps :
           process_marketevent(MarketData(t, Fin(1)))
    /\ UNCHANGED <<subscribe_receiver, run_state, last_arm, last_lengths,
                   plot_call, metrics>>

\* process_portfolioinfo called with an event
CallPortfolioInfo ==
    /\ Len(asset_history) < MaxAssetHistory
    /\ \E a \in Assets, c \in Cashes :
           process_portfolioinfo(PortfolioInfo(a, c))
    /\ UNCHANGED <<subscribe_receiver, run_state, last_arm, last_lengths,
                   plot_call, metrics>>

\* plot called on a snapshot of the histories with the memo kept by the caller
CallPlot ==
    /\ \E surface_ok \in BOOLEAN :
           LET call == plot(market_data_history, asset_history, cash_history,
                            last_lengths, surface_ok)
           IN  /\ plot_call' = call
               /\ last_lengths' = call.memo_after
               /\ metrics' = IF call.computed_metrics THEN calculate_metrics
                             ELSE metrics
    /\ UNCHANGED <<subscribe_receiver, market_data_history, asset_history,
                   cash_history, local_portfolio, run_state, last_arm>>

NextPlot ==
    \/ CallMarketEvent
    \/ CallPortfolioInfo
    \/ CallPlot

SpecPlot == InitPlot /\ [][NextPlot]_vars

----------------------------------------------------------------------------
(* calculate_metrics applied to histories drawn from bounded sets *)

SeriesValues == {Fin(n) : n \in -1..MaxSeriesVal} \cup {NaN, PosInf, NegInf}

\* all series of exactly len points over the values, stamped with label 1
SeriesOf(values, len) ==
    {[i \in 1..len |-> <<1, f[i]>>] : f \in [1..len -> values]}

Stamped(ns) == [i \in 1..Len(ns) |-> <<1, Fin(ns[i])>>]

ExampleMaxDrawdown == Stamped(<<100, 90, 80, 95, 100>>)
ExampleLongestDrawdown == Stamped(<<100, 90, 95, 80, 100, 100>>)

\* histories the loop can build: no asset point without a market point
InitMetrics ==
    /\ subscribe_receiver = <<>>
    /\ \E len \in 0..MaxMarketLen :
           market_data_history \in SeriesOf({Fin(1)}, len)
    /\ \/ \E len \in 0..MaxSeriesLen :
              asset_history \in SeriesOf(SeriesValues, len)
       \/ asset_history \in {ExampleMaxDrawdown, ExampleLongestDrawdown}
    /\ Len(market_data_history) = 0 => Len(asset_history) = 0
    /\ cash_history = [i \in 1..Len(asset_history) |-> <<1, Fin(0)>>]
    /\ local_portfolio =
           IF Len(asset_history) = 0 THEN [asset |-> Fin(0), cash |-> Fin(0)]
           ELSE [asset |-> asset_history[Len(asset_history)][2],
                 cash |-> Fin(0)]
    /\ run_state = "Running"
    /\ last_arm = "none"
    /\ last_lengths = <<0, 0>>
    /\ plot_call = NoPlot
    /\ metrics = NotComputed

CallCalculateMetrics ==
    /\ metrics' = calculate_metrics
    /\ UNCHANGED <<subscribe_receiver, market_data_history, asset_history,
                   cash_history, local_portfolio, run_state, last_arm,
                   last_lengths, plot_call>>

NextMetrics == CallCalculateMetrics

SpecMetrics == InitMetrics /\ [][NextMetrics]_vars

----------------------------------------------------------------------------
(* calculate_metrics applied to positive asset values of two scales *)

ScaledValues == {Sub(1), Fin(1), Fin(2)}

InitScaled ==
    /\ subscribe_receiver = <<>>
    /\ \E len \in 1..MaxMarketLen :
           market_data_history \in SeriesOf({Fin(1)}, len)
    /\ \E len \in 0..MaxSeriesLen :
           asset_history \in SeriesOf(ScaledValues, len)
    /\ cash_history = [i \in 1..Len(asset_history) |-> <<1, Fin(0)>>]
    /\ local_portfolio =
           IF Len(asset_history) = 0 THEN [asset |-> Fin(0), cash |-> Fin(0)]
           ELSE [asset |-> asset_history[Len(asset_history)][2],
                 cash |-> Fin(0)]
    /\ run_state = "Running"
    /\ last_arm = "none"
    /\ last_lengths = <<0, 0>>
    /\ plot_call = NoPlot
    /\ metrics = NotComputed

SpecScaled == InitScaled /\ [][NextMetrics]_vars

----------------------------------------------------------------------------
(* Properties *)

IsPrefix(s, t) == Len(s) <= Len(t) /\ SubSeq(t, 1, Len(s)) = s

\* this step is `run` taking an event of the kind out of the channel
Receives(kind) ==
    /\ subscribe_receiver # <<>>
    /\ Head(subscribe_receiver).kind = kind
    /\ subscribe_receiver' = Tail(subscribe_receiver)

PlotPaths == {"no_update", "no_data", "metrics_error", "rendered", "render_error"}

\* C1: calculate_metrics returns the InsufficientData error, and no Metrics,
\* whenever the market series or the asset series has fewer than 2 points.
C1_InsufficientDataBelowTwoPoints ==
    (/\ metrics.err # "not_called"
     /\ (Len(market_data_history) < 2 \/ Len(asset_history) < 2))
    => (~metrics.ok /\ metrics.err = "InsufficientData")

\* C2: a step that receives a shutdown event runs one plot pass and leaves
\* the loop Stopped whatever the pass did; once Stopped, the loop stays
\* Stopped, takes nothing out of the channel and changes no state.
C2_ShutDownAlwaysStops ==
    [][/\ (run_state = "Running" /\ Receives("ShutDown"))
              => /\ run_state' = "Stopped"
                 /\ last_arm' = "ShutDown"
                 /\ plot_call'.path \in PlotPaths
       /\ run_state = "Stopped"
              => /\ run_state' = "Stopped"
                 /\ IsPrefix(subscribe_receiver, subscribe_receiver')
                 /\ UNCHANGED <<histories, local_portfolio, last_arm,
                                last_lengths, plot_call, metrics>>]_vars

\* C2 witness: stopped after a pass that failed, with events still queued
C2_StoppedAfterFailedPass ==
    /\ run_state = "Stopped"
    /\ plot_call.path = "metrics_error"
    /\ Len(subscribe_receiver) > 0

\* C3: run_state changes only in a step that receives a shutdown event while
\* Running; a step that receives a market, portfolio or unsupported event
\* leaves the loop Running, and an unsupported event changes no history.
C3_OnlyShutDownLeavesRunning ==
    [][/\ run_state' # run_state
              => (run_state = "Running" /\ Receives("ShutDown"))
       /\ \A kind \in {"MarketData", "PortfolioInfo", "OrderPlace"} :
              (run_state = "Running" /\ Receives(kind))
                  => run_state' = "Running"
       /\ Receives("OrderPlace") => UNCHANGED histories]_vars

\* C3 witness: an unsupported event was handled after data had arrived
C3_RunningAfterUnsupported ==
    /\ run_state = "Running"
    /\ last_arm = "Unsupported"
    /\ Len(market_data_history) > 0
    /\ Len(asset_history) > 0

\* C4: a portfolio event received while the market series is empty leaves the
\* asset and cash series unchanged, and both are empty while it is empty.
C4_PortfolioBeforeMarketDropped ==
    /\ [](Len(market_data_history) = 0
              => (asset_history = <<>> /\ cash_history = <<>>))
    /\ [][(Receives("PortfolioInfo") /\ Len(market_data_history) = 0)
              => UNCHANGED <<asset_history, cash_history>>]_vars

\* C4 witness: a portfolio event was taken in, nothing was appended
C4_PortfolioEventDropped ==
    /\ last_arm = "PortfolioInfo"
    /\ local_portfolio.asset = Fin(1)
    /\ market_data_history = <<>>
    /\ asset_history = <<>>
    /\ cash_history = <<>>

\* the timestamp of the last market observation
LatestTimestamp == market_data_history[Len(market_data_history)][1]

\* C5: every asset entry and every cash entry carries the timestamp of a
\* market observation, and a portfolio event appends its two entries with
\* the timestamp of the last market observation at that moment.
C5_PortfolioTimestampFromMarket ==
    /\ [](\A series \in {asset_history, cash_history} :
              \A i \in 1..Len(series) :
                  \E j \in 1..Len(market_data_history) :
                      series[i][1] = market_data_history[j][1])
    /\ [][(Receives("PortfolioInfo") /\ Len(market_data_history) > 0)
              => /\ Len(asset_history') = Len(asset_history) + 1
                 /\ Len(cash_history') = Len(cash_history) + 1
                 /\ asset_history'[Len(asset_history')][1] = LatestTimestamp
                 /\ cash_history'[Len(cash_history')][1] = LatestTimestamp]_vars

\* C5 witness: two portfolio events stamped from two different market events
C5_TwoStampsTaken ==
    /\ Len(market_data_history) = 2
    /\ Len(asset_history) = 2
    /\ asset_history[1][1] = market_data_history[1][1]
    /\ asset_history[2][1] = market_data_history[2][1]
    /\ asset_history[1][1] # asset_history[2][1]

\* C6: in every step each history keeps its previous contents as a prefix,
\* and a step that receives a market event grows the market series by one.
C6_HistoriesAppendOnly ==
    [][/\ IsPrefix(market_data_history, market_data_history')
       /\ IsPrefix(asset_history, asset_history')
       /\ IsPrefix(cash_history, cash_history')
       /\ Receives("MarketData")
              => Len(market_data_history') = Len(market_data_history) + 1]_vars

\* C6 witness: full histories survived a shutdown pass that failed to render
C6_HistoriesKeptByFailedPass ==
    /\ run_state = "Stopped"
    /\ plot_call.path = "render_error"
    /\ Len(market_data_history) = MaxMarketHistory
    /\ Len(asset_history) = MaxAssetHistory
    /\ Len(cash_history) = MaxAssetHistory

\* C7: a plot call whose lengths equal the memo reports "no update", returns
\* Ok, computes no metrics, does not call the surface and leaves the memo
\* unchanged; a call that follows a call on the same lengths never renders.
C7_NoUpdateSkipsRender ==
    /\ []((plot_call.path # "none"
               /\ plot_call.lengths = plot_call.memo_before)
              => /\ plot_call.path = "no_update"
                 /\ plot_call.result = "Ok"
                 /\ ~plot_call.computed_metrics
                 /\ ~plot_call.called_surface
                 /\ plot_call.memo_after = plot_call.memo_before)
    /\ [][(/\ plot_call.path # "none"
           /\ plot_call' # plot_call
           /\ plot_call'.lengths = plot_call.lengths)
              => /\ plot_call'.path = "no_update"
                 /\ ~plot_call'.called_surface]_vars

\* C7 witness: the second of two calls on unchanged, non-empty series
C7_SecondCallSkipped ==
    /\ plot_call.path = "no_update"
    /\ plot_call.lengths = <<MaxMarketHistory, MaxAssetHistory>>
    /\ metrics.ok

\* C8: whenever plot divides the series by their first values, neither
\* divisor is zero.
C8_DivisorsNonZero ==
    plot_call.divided
        => /\ plot_call.first_market_value # Fin(0)
           /\ plot_call.first_asset_value # Fin(0)

\* max(v[1..i]) of a series of finite values
RunningPeak(series, i) ==
    CHOOSE m \in {series[j][2].n : j \in 1..i} :
        \A j \in 1..i : series[j][2].n <= m

\* v[i] / max(v[1..i]) - 1
DrawdownAt(series, i) ==
    <<series[i][2].n - RunningPeak(series, i), RunningPeak(series, i)>>

\* C9: when calculate_metrics returns Metrics (all asset values finite and
\* positive), max_drawdown is the least v[i] / max(v[1..i]) - 1 over all i,
\* it is at most 0, and it is -0.20 for [100, 90, 80, 95, 100].
C9_MaxDrawdownIsLeastDrawdown ==
    metrics.ok
        => /\ \E i \in 1..Len(asset_history) :
                  /\ RatEq(metrics.max_drawdown, DrawdownAt(asset_history, i))
                  /\ \A j \in 1..Len(asset_history) :
                         ~RatLt(DrawdownAt(asset_history, j),
                                DrawdownAt(asset_history, i))
           /\ ~RatLt(<<0, 1>>, metrics.max_drawdown)
           /\ asset_history = ExampleMaxDrawdown
                  => RatEq(metrics.max_drawdown, <<-1, 5>>)

\* C9 witness: a series that falls, recovers past the peak and falls deeper
C9_DrawdownAfterNewPeak ==
    /\ metrics.ok
    /\ Len(asset_history) = 4
    /\ asset_history[1][2] = Fin(2)
    /\ asset_history[2][2] = Fin(1)
    /\ asset_history[3][2] = Fin(3)
    /\ asset_history[4][2] = Fin(1)
    /\ RatEq(metrics.max_drawdown, <<-2, 3>>)

InDrawdown(series, i) == series[i][2].n < RunningPeak(series, i)

\* an episode starts at the first index below the running peak
EpisodeStarts(series) ==
    {s \in 1..Len(series) :
        /\ InDrawdown(series, s)
        /\ s > 1 => ~InDrawdown(series, s - 1)}

\* it ends at the first later index at or above the peak, else at the last
EpisodeEnd(series, s) ==
    LET recoveries == {e \in (s + 1)..Len(series) :
                          series[e][2].n >= RunningPeak(series, s)}
    IN  IF recoveries = {} THEN Len(series)
        ELSE CHOOSE e \in recoveries : \A f \in recoveries : e <= f

EpisodeLengths(series) ==
    {EpisodeEnd(series, s) - s : s \in EpisodeStarts(series)}

\* C10: when calculate_metrics returns Metrics, longest_drawdown is the
\* greatest (end - start) over the drawdown episodes, 0 without an episode,
\* and 3 for [100, 90, 95, 80, 100, 100].
C10_LongestDrawdownIsLongestEpisode ==
    metrics.ok
        => /\ IF EpisodeLengths(asset_history) = {}
              THEN metrics.longest_drawdown = 0
              ELSE /\ metrics.longest_drawdown \in EpisodeLengths(asset_history)
                   /\ \A len \in EpisodeLengths(asset_history) :
                          len <= metrics.longest_drawdown
           /\ asset_history = ExampleLongestDrawdown
                  => metrics.longest_drawdown = 3

\* C10 witness: a recovered episode, then one that opens at the last index
C10_SeriesEndsInDrawdown ==
    /\ metrics.ok
    /\ Len(asset_history) = 4
    /\ asset_history[1][2] = Fin(2)
    /\ asset_history[2][2] = Fin(1)
    /\ asset_history[3][2] = Fin(2)
    /\ asset_history[4][2] = Fin(1)
    /\ metrics.longest_drawdown = 1

\* the values the validity check is to reject: NaN, infinite, or <= 0
NotPositiveFinite(value) ==
    \/ value.k = "nan"
    \/ value.k = "inf"
    \/ value.k = "fin" /\ value.n <= 0

\* C11: when some asset value is NaN, infinite or <= 0, calculate_metrics
\* returns the InvalidSeriesValue error, no Metrics, and has not reached the
\* drawdown computation.
C11_InvalidAssetValueRejected ==
    (/\ metrics.err # "not_called"
     /\ \E i \in 1..Len(asset_history) : NotPositiveFinite(asset_history[i][2]))
    => /\ ~metrics.ok
       /\ metrics.err = "InvalidSeriesValue"
       /\ ~metrics.computed_drawdown

\* C11 witness: a zero value after two valid ones was rejected
C11_ZeroValueRejected ==
    /\ metrics.err = "InvalidSeriesValue"
    /\ Len(asset_history) = 3
    /\ asset_history[1][2] = Fin(2)
    /\ asset_history[2][2] = Fin(1)
    /\ asset_history[3][2] = Fin(0)

\* some portfolio period return of the series is negative
HasNegativeReturn(series) ==
    \E i \in 1..(Len(series) - 1) : FLt(series[i + 1][2], series[i][2])

\* C12: when calculate_metrics returns Metrics, sortino_ratio is +Infinity
\* if no portfolio period return is negative, and finite if one is.
C12_SortinoInfiniteIffNoDownside ==
    metrics.ok
        => IF HasNegativeReturn(asset_history)
           THEN metrics.sortino_ratio.k = "fin"
           ELSE metrics.sortino_ratio.k = "inf"

\* C13: for every index i of the asset snapshot plot divided, the position
\* value at i is (asset[i] - cash[i]) / first asset value, cash[i] being the
\* cash recorded by the portfolio event that recorded asset[i].
C13_PositionValueUsesOwnCash ==
    plot_call.divided
        => \A i \in 1..Len(plot_call.standardized_difference) :
               RatEq(plot_call.standardized_difference[i],
                     <<asset_history[i][2].n - cash_history[i][2].n,
                       plot_call.first_asset_value.n>>)

\* C14: the asset series and the cash series always have the same length and
\* the same timestamp at every index, and no asset point of a shutdown
\* snapshot misses its cash entry and takes the default 0.
C14_AssetAndCashAligned ==
    /\ Len(asset_history) = Len(cash_history)
    /\ \A i \in 1..Len(asset_history) : asset_history[i][1] = cash_history[i][1]
    /\ plot_call.divided
           => /\ ~plot_call.cash_defaulted
              /\ Len(plot_call.standardized_difference) = Len(asset_history)

\* C14 witness: a shutdown snapshot with two asset points of different
\* timestamps was plotted
C14_ShutDownSnapshotPlotted ==
    /\ run_state = "Stopped"
    /\ plot_call.divided
    /\ Len(plot_call.standardized_difference) = 2
    /\ asset_history[1][1] # asset_history[2][1]
    /\ ~plot_call.cash_defaulted

====
